---- MODULE Spec2Model ----
(***************************************************************************)
(* riquest: one HTTP(S) request per call, returned as a promise.           *)
(*                                                                         *)
(* JavaScript values are records with a kind field k.  Text (a JS string)  *)
(* is a sequence of tokens; the digits of a number are one token each, so  *)
(* that parseInt, String(n) and template literals are computed.  A text    *)
(* stands for the string its tokens spell, one after the other.  An object *)
(* is [k |-> "object", f |-> <record of its own properties>].  The texts   *)
(* of the engine's own error messages are those of node 20 (V8 11.3,       *)
(* OpenSSL 3).                                                             *)
(***************************************************************************)
EXTENDS Integers, Sequences, FiniteSets, TLC

VARIABLES
    requestParams,  \* the argument of the call
    called,         \* TRUE once the promise executor has run
    calls,          \* every invocation of resolve / reject, in order
    promise,        \* the promise: pending, or settled by the first invocation
    request,        \* the transport handle made by lib.request(options, cb)
    response,       \* the response object handed to the response callback
    chunks,         \* the chunks array of the response callback
    arrived         \* what the transport emitted as 'data', in order

vars == <<requestParams, called, calls, promise, request, response, chunks, arrived>>

----------------------------------------------------------------------------
(* Bounds of the model *)

\* most 'data' events the transport emits for one response
MaxChunks == 3

\* the timeout a caller passes, in milliseconds
UserTimeout == 25

----------------------------------------------------------------------------
(* JavaScript values *)

Undefined == [k |-> "undefined"]
Null      == [k |-> "null"]
NaN       == [k |-> "nan"]
Cycle     == [k |-> "cycle"]
Str(t)    == [k |-> "string", v |-> t]
Num(n)    == [k |-> "number", n |-> n]
Bool(b)   == [k |-> "boolean", b |-> b]
Obj(r)    == [k |-> "object", f |-> r]
Arr(s)    == [k |-> "array", s |-> s]
Buf(t)    == [k |-> "buffer", bytes |-> t]
Err(m)    == [k |-> "error", message |-> m]
Fn        == [k |-> "function"]

\* the string the tokens of text spell
RECURSIVE Flat(_)
Flat(text) == IF text = <<>> THEN "" ELSE Head(text) \o Flat(Tail(text))

\* the characters of a string, one token each
Explode(string) == [i \in 1..Len(string) |-> SubSeq(string, i, i)]

\* text.length
TextLen(text) == Len(Flat(text))

\* typeof val
TypeOf(val) ==
    CASE val.k = "undefined" -> "undefined"
      [] val.k = "string"    -> "string"
      [] val.k \in {"number", "nan"} -> "number"
      [] val.k = "boolean"   -> "boolean"
      [] val.k = "function"  -> "function"
      [] OTHER               -> "object"

\* if (val) ...
Truthy(val) ==
    CASE val.k \in {"undefined", "null", "nan"} -> FALSE
      [] val.k = "string"  -> TextLen(val.v) > 0
      [] val.k = "number"  -> val.n # 0
      [] val.k = "boolean" -> val.b
      [] OTHER             -> TRUE

\* obj[name]; a property the object does not have reads as undefined
Get(obj, name) ==
    IF obj.k = "object" /\ name \in DOMAIN obj.f
    THEN obj.f[name]
    ELSE Undefined

DigitChars == <<"0", "1", "2", "3", "4", "5", "6", "7", "8", "9">>

IsDigit(c) == \E i \in 1..10 : DigitChars[i] = c

DigitVal(c) == (CHOOSE i \in 1..10 : DigitChars[i] = c) - 1

\* String(n) for a non-negative integer
RECURSIVE Digits(_)
Digits(n) ==
    IF n < 10 THEN <<DigitChars[n + 1]>>
    ELSE Digits(n \div 10) \o <<DigitChars[(n % 10) + 1]>>

\* `${val}`
ToText(val) ==
    CASE val.k = "undefined" -> <<"undefined">>
      [] val.k = "null"      -> <<"null">>
      [] val.k = "nan"       -> <<"NaN">>
      [] val.k = "string"    -> val.v
      [] val.k = "number"    -> Digits(val.n)
      [] val.k = "boolean"   -> IF val.b THEN <<"true">> ELSE <<"false">>
      [] val.k = "array"     -> <<>>
      [] val.k = "buffer"    -> val.bytes
      [] OTHER               -> <<"[object Object]">>

\* the value of the longest prefix of digits of text, from position i on
RECURSIVE LeadingInt(_, _, _)
LeadingInt(text, i, acc) ==
    IF i <= Len(text) /\ IsDigit(text[i])
    THEN LeadingInt(text, i + 1, acc * 10 + DigitVal(text[i]))
    ELSE acc

\* parseInt(val, 10)
ParseInt(val) ==
    LET text == ToText(val) IN
    IF Len(text) > 0 /\ IsDigit(text[1]) THEN Num(LeadingInt(text, 1, 0)) ELSE NaN

IsNaN(val) == val.k = "nan"

canParseInt(stringToCheck) == ~IsNaN(ParseInt(stringToCheck))

isNil(val) == val.k \in {"null", "undefined"}

\* e && e.stack && e.message
isError(e) == e.k = "error" /\ TextLen(e.message) > 0

\* capitalize has no return statement
capitalize(string) == Undefined

isObject(obj) == ~isNil(obj) /\ obj.k # "array" /\ TypeOf(obj) = "object"

\* removeNilValue that drops undefined values only
removeUndefinedValue(obj) ==
    IF obj.k # "object" THEN obj
    ELSE Obj([key \in {n \in DOMAIN obj.f : obj.f[n].k # "undefined"} |-> obj.f[key]])

\* the entries of obj whose value is not nil
removeNilValue(obj) ==
    IF ~isObject(obj) THEN obj
    ELSE Obj([key \in {n \in DOMAIN obj.f : ~isNil(obj.f[n])} |-> obj.f[key]])

\* Object.assign({}, a, b) of two values; a nil source is skipped
Assign(a, b) ==
    LET fa == IF a.k = "object" THEN a.f ELSE <<>>
        fb == IF b.k = "object" THEN b.f ELSE <<>>
    IN  Obj([key \in (DOMAIN fa) \cup (DOMAIN fb) |->
                IF key \in DOMAIN fb THEN fb[key] ELSE fa[key]])

\* text contains sub as a run of consecutive tokens
Contains(text, sub) ==
    \E i \in 0..(Len(text) - Len(sub)) :
        \A j \in 1..Len(sub) : text[i + j] = sub[j]

----------------------------------------------------------------------------
(* validateHttpParams *)

LowerLetters ==
    <<"a", "b", "c", "d", "e", "f", "g", "h", "i", "j", "k", "l", "m",
      "n", "o", "p", "q", "r", "s", "t", "u", "v", "w", "x", "y", "z">>

UpperLetters ==
    <<"A", "B", "C", "D", "E", "F", "G", "H", "I", "J", "K", "L", "M",
      "N", "O", "P", "Q", "R", "S", "T", "U", "V", "W", "X", "Y", "Z">>

\* the upper-case form of one character (of the letters a to z; any other
\* character of the texts used here is its own upper-case form)
UpperChar(c) ==
    IF \E i \in 1..Len(LowerLetters) : LowerLetters[i] = c
    THEN UpperLetters[CHOOSE i \in 1..Len(LowerLetters) : LowerLetters[i] = c]
    ELSE c

\* string.toUpperCase(): every character of every token is upper-cased
ToUpperCase(text) ==
    [i \in 1..Len(text) |->
        Flat([j \in 1..Len(text[i]) |-> UpperChar(SubSeq(text[i], j, j))])]

Methods == {"GET", "POST", "PUT", "DELETE"}

\* the url test without its length part
UrlInvalidTypeOnly(val) == TypeOf(val) # "string"

\* typeof params.url !== 'string' || !params.url.length
UrlInvalid(val) == TypeOf(val) # "string" \/ TextLen(val.v) = 0

\* the message validateHttpParams throws, or <<>> when it returns
validateHttpParams(params) ==
    LET given(val) == <<TypeOf(val), " given">>
        isString(val) == TypeOf(val) = "string"
        p(name) == Get(params, name)
    IN
    IF ~isObject(params) THEN
        <<"Params mus be an object, ">> \o given(params)
    ELSE IF UrlInvalid(p("url")) THEN
        <<"url", " must be a string, ">> \o given(p("url"))
    ELSE IF ~isNil(p("headers")) /\ ~isObject(p("headers")) THEN
        <<"headers", " mus be an object, ">> \o given(p("headers"))
    ELSE IF ~isNil(p("method"))
            /\ (~isString(p("method"))
                \/ Flat(ToUpperCase(p("method").v)) \notin Methods) THEN
        \* typeof method: no variable of that name exists
        <<"method", " must be a string, ">> \o given(Undefined)
    ELSE IF ~isNil(p("data")) /\ ~isObject(p("data")) THEN
        <<"data", " mus be an object, ">> \o given(p("data"))
    ELSE IF ~isNil(p("auth")) /\ ~isString(p("auth")) THEN
        <<"auth", " must be a string, ">> \o given(p("auth"))
    ELSE IF ~isNil(p("agent")) /\ ~isObject(p("agent")) THEN
        <<"agent", " mus be an object, ">> \o given(p("agent"))
    ELSE IF ~isNil(p("createConnection")) /\ ~isString(p("createConnection")) THEN
        <<"createConnection", " must be a string, ">> \o given(p("createConnection"))
    ELSE IF ~isNil(p("timeout")) /\ TypeOf(p("timeout")) # "number" THEN
        <<"timeout", " must be a number, ">> \o given(p("timeout"))
    ELSE IF ~isNil(p("ca")) /\ ~isString(p("ca")) THEN
        <<"ca", " must be a string, ">> \o given(p("ca"))
    ELSE IF ~isNil(p("cert")) /\ ~isString(p("cert")) THEN
        <<"cert", " must be a string, ">> \o given(p("cert"))
    ELSE IF ~isNil(p("key")) /\ ~isString(p("key")) THEN
        <<"key", " must be a string, ">> \o given(p("key"))
    ELSE IF ~isNil(p("rejectUnauthorized")) /\ TypeOf(p("rejectUnauthorized")) # "boolean" THEN
        <<"rejectUnauthorized", " must be a boolean, ">> \o given(p("rejectUnauthorized"))
    ELSE IF ~isNil(p("returnStream")) /\ TypeOf(p("returnStream")) # "boolean" THEN
        <<"returnStream", " must be a boolean, ">> \o given(p("returnStream"))
    ELSE <<>>

\* attempt(func): the error func throws, or what it returns
attempt(thrown, returned) ==
    IF Len(thrown) > 0 THEN Err(thrown) ELSE returned

----------------------------------------------------------------------------
(* new URL(string) *)

SchemeTable ==
    [http |-> "http", https |-> "https", HTTP |-> "http", HTTPS |-> "https",
     ftp |-> "ftp"]

HostTokens  == {"host"}
PathTokens  == {"/", "/path"}
QueryTokens == {"q=1"}
HashTokens  == {"frag"}

\* the default port the URL parser drops from the port field
UrlDefaultPort(scheme) ==
    CASE scheme = "http" -> 80 [] scheme = "https" -> 443 [] OTHER -> 21

\* the first position from i on that holds no digit
RECURSIVE DigitsEnd(_, _)
DigitsEnd(text, i) ==
    IF i <= Len(text) /\ IsDigit(text[i]) THEN DigitsEnd(text, i + 1) ELSE i

\* The URL object for a string scheme :// host [: digits] [path] [? [query]]
\* [# [fragment]], or an error for any other string.
NewURL(string) ==
    LET text == string.v
        n == Len(text)
        at(i, tokens) == i <= n /\ text[i] \in tokens
        wellStarted == n >= 3 /\ text[1] \in DOMAIN SchemeTable
                       /\ text[2] = "://" /\ text[3] \in HostTokens
        hasPort == at(4, {":"})
        p0 == IF hasPort THEN 5 ELSE 4
        p1 == IF hasPort THEN DigitsEnd(text, 5) ELSE 4
        portText == SubSeq(text, p0, p1 - 1)
        portNum == LeadingInt(portText, 1, 0)
        hasPath == at(p1, PathTokens)
        p2 == IF hasPath THEN p1 + 1 ELSE p1
        hasQ == at(p2, {"?"})
        hasQv == hasQ /\ at(p2 + 1, QueryTokens)
        p3 == p2 + (IF hasQ THEN 1 ELSE 0) + (IF hasQv THEN 1 ELSE 0)
        hasH == at(p3, {"#"})
        hasHv == hasH /\ at(p3 + 1, HashTokens)
        p4 == p3 + (IF hasH THEN 1 ELSE 0) + (IF hasHv THEN 1 ELSE 0)
        scheme == SchemeTable[text[1]]
    IN
    IF ~wellStarted \/ p4 # n + 1 \/ portNum > 65535 THEN
        Err(<<"Invalid URL">>)
    ELSE
        [k |-> "url",
         protocol |-> <<scheme, ":">>,
         hostname |-> <<text[3]>>,
         port |-> IF portText = <<>> \/ portNum = UrlDefaultPort(scheme)
                  THEN <<>> ELSE Digits(portNum),
         pathname |-> IF hasPath THEN <<text[p1]>> ELSE <<"/">>,
         search |-> IF hasQv THEN <<"?", text[p2 + 1]>> ELSE <<>>,
         hash |-> IF hasHv THEN <<"#", text[p3 + 1]>> ELSE <<>>]

\* string.replace(token, ''): the first occurrence is removed
ReplaceFirst(text, token) ==
    IF \E i \in 1..Len(text) : text[i] = token
    THEN LET i == CHOOSE j \in 1..Len(text) :
                    text[j] = token /\ \A h \in 1..(j - 1) : text[h] # token
         IN  SubSeq(text, 1, i - 1) \o SubSeq(text, i + 1, Len(text))
    ELSE text

----------------------------------------------------------------------------
(* JSON.stringify and JSON.parse *)

\* the order in which the properties of a data object were inserted
KeyOrder == <<"a", "b", "self">>

RECURSIVE Circle(_)
RECURSIVE CircleInKeys(_, _)
RECURSIVE CircleInElems(_, _)

\* The first reference back to its own container that JSON.stringify meets
\* in val (Cycle stands for that reference): the constructor name of the
\* container and the property that closes the circle; <<>> when there is
\* none.
Circle(val) ==
    CASE val.k = "object" ->
            CircleInKeys(val, SelectSeq(KeyOrder, LAMBDA key : key \in DOMAIN val.f))
      [] val.k = "array" -> CircleInElems(val.s, 1)
      [] OTHER -> <<>>

CircleInKeys(obj, keys) ==
    IF keys = <<>> THEN <<>>
    ELSE LET val == obj.f[Head(keys)] IN
         IF val.k = "cycle" THEN <<"Object", "property '", Head(keys), "'">>
         ELSE IF Circle(val) # <<>> THEN Circle(val)
         ELSE CircleInKeys(obj, Tail(keys))

CircleInElems(elems, i) ==
    IF i > Len(elems) THEN <<>>
    ELSE IF elems[i].k = "cycle" THEN <<"Array", "index ">> \o Digits(i - 1)
    ELSE IF Circle(elems[i]) # <<>> THEN Circle(elems[i])
    ELSE CircleInElems(elems, i + 1)

RECURSIVE StringifyText(_)
RECURSIVE StringifyEntries(_, _, _)
RECURSIVE StringifyElems(_, _)

\* the entries "key":value of obj for keys, comma separated; a property
\* whose value is undefined or a function is left out
StringifyEntries(obj, keys, first) ==
    IF keys = <<>> THEN <<>>
    ELSE LET val == obj.f[Head(keys)] IN
         IF val.k \in {"undefined", "function"}
         THEN StringifyEntries(obj, Tail(keys), first)
         ELSE (IF first THEN <<>> ELSE <<",">>)
              \o <<"\"", Head(keys), "\"", ":">> \o StringifyText(val)
              \o StringifyEntries(obj, Tail(keys), FALSE)

\* the elements of an array from the i-th on, comma separated; an element
\* that is undefined or a function is written null
StringifyElems(elems, i) ==
    IF i > Len(elems) THEN <<>>
    ELSE (IF i = 1 THEN <<>> ELSE <<",">>)
         \o (IF elems[i].k \in {"undefined", "function"}
             THEN <<"null">> ELSE StringifyText(elems[i]))
         \o StringifyElems(elems, i + 1)

\* JSON.stringify(val, null, 0) of a value without circular reference
StringifyText(val) ==
    CASE val.k = "number" -> Digits(val.n)
      [] val.k = "string" -> <<"\"">> \o val.v \o <<"\"">>
      [] val.k = "boolean" -> ToText(val)
      [] val.k \in {"null", "nan"} -> <<"null">>
      [] val.k = "object" ->
            <<"{">>
            \o StringifyEntries(val,
                   SelectSeq(KeyOrder, LAMBDA key : key \in DOMAIN val.f), TRUE)
            \o <<"}">>
      [] val.k = "array" -> <<"[">> \o StringifyElems(val.s, 1) \o <<"]">>
      [] val.k = "error" -> <<"{", "}">>
      [] OTHER -> <<"null">>

\* JSON.stringify(val, null, 0) as text, <<"#throw">> when it throws
Stringify(val) ==
    IF Circle(val) # <<>> THEN <<"#throw">> ELSE StringifyText(val)

\* attempt(() => JSON.stringify(data, null, 0))
AttemptStringify(data) ==
    IF Circle(data) # <<>>
    THEN Err(<<"Converting circular structure to JSON",
               "\n    --> starting at object with constructor '", Head(Circle(data)), "'",
               "\n    --- ">> \o Tail(Circle(data)) \o <<" closes the circle">>)
    ELSE Str(Stringify(data))

\* the white space of JSON
JsonWhitespace == {" ", "\t", "\n", "\r"}

\* the first position from i on that holds no white space
RECURSIVE SkipWs(_, _)
SkipWs(s, i) == IF i <= Len(s) /\ s[i] \in JsonWhitespace THEN SkipWs(s, i + 1) ELSE i

\* texts shorter than this are quoted whole in the message for a token
MinSourceLengthForContext == 21

\* the characters quoted on each side of the token in longer texts
MaxContextCharacters == 10

\* texts JSON.parse reports whole, whatever their length
SpecialStrings == {"NaN", "Infinity", "undefined", "[object Object]"}

\* the message for the character at position i of s, or for the end of s,
\* met where it cannot stand
UnexpectedToken(s, i) ==
    LET n == Len(s)
        pos == i - 1
        C == MaxContextCharacters
        token == <<"Unexpected token '", s[i], "', ">>
    IN
    IF i > n THEN <<"Unexpected end of JSON input">>
    ELSE IF Flat(s) \in SpecialStrings THEN <<"\"">> \o s \o <<"\" is not valid JSON">>
    ELSE IF n < MinSourceLengthForContext THEN
        token \o <<"\"">> \o s \o <<"\" is not valid JSON">>
    ELSE IF pos < C THEN
        token \o <<"\"">> \o SubSeq(s, 1, pos + C) \o <<"\"... is not valid JSON">>
    ELSE IF pos < n - C THEN
        token \o <<"...\"">> \o SubSeq(s, pos - C + 1, pos + C)
              \o <<"\"... is not valid JSON">>
    ELSE
        token \o <<"...\"">> \o SubSeq(s, pos - C + 1, n) \o <<"\" is not valid JSON">>

\* a message that ends with the position (from 0) of the character at i
AtPosition(message, i) == <<message>> \o Digits(i - 1)

ParseOk(next)       == [ok |-> TRUE, next |-> next]
ParseFail(message)  == [ok |-> FALSE, message |-> message]

RECURSIVE ParseVal(_, _)
RECURSIVE ParseElems(_, _)

\* The JSON value that starts at position i of s (white space skipped): the
\* position after it, or the message of the error.  The values are the
\* non-negative integers and the arrays of values; any other character is
\* taken as one no JSON value starts with.
ParseVal(s, i) ==
    IF i > Len(s) THEN ParseFail(UnexpectedToken(s, i))
    ELSE IF IsDigit(s[i]) THEN
        IF s[i] # "0" THEN ParseOk(DigitsEnd(s, i))
        ELSE IF i + 1 <= Len(s) /\ IsDigit(s[i + 1])
        THEN ParseFail(AtPosition("Unexpected number in JSON at position ", i + 1))
        ELSE ParseOk(i + 1)
    ELSE IF s[i] = "[" THEN
        LET j == SkipWs(s, i + 1) IN
        IF j <= Len(s) /\ s[j] = "]" THEN ParseOk(j + 1) ELSE ParseElems(s, j)
    ELSE ParseFail(UnexpectedToken(s, i))

\* the rest of an array whose next element starts at i: the position after
\* its closing bracket, or the message of the error
ParseElems(s, i) ==
    LET e == ParseVal(s, i) IN
    IF ~e.ok THEN e
    ELSE LET j == SkipWs(s, e.next) IN
         IF j <= Len(s) /\ s[j] = "," THEN ParseElems(s, SkipWs(s, j + 1))
         ELSE IF j <= Len(s) /\ s[j] = "]" THEN ParseOk(j + 1)
         ELSE ParseFail(AtPosition(
                  "Expected ',' or ']' after array element in JSON at position ", j))

\* JSON.parse(text): the parsed value (written without white space), or the
\* error it throws
JSONParse(text) ==
    LET s == Explode(Flat(text))
        e == ParseVal(s, SkipWs(s, 1))
    IN
    IF ~e.ok THEN Err(e.message)
    ELSE IF SkipWs(s, e.next) # Len(s) + 1 THEN
        Err(AtPosition("Unexpected non-whitespace character after JSON at position ",
                       SkipWs(s, e.next)))
    ELSE [k |-> "json", v |-> SelectSeq(s, LAMBDA c : c \notin JsonWhitespace)]

\* chunks.join('')
RECURSIVE Join(_)
Join(cs) == IF cs = <<>> THEN <<>> ELSE Head(cs) \o Join(Tail(cs))

----------------------------------------------------------------------------
(* module.exports: the promise executor *)

protocols ==
    [http  |-> [lib |-> "http",  defaultPort |-> 80],
     https |-> [lib |-> "https", defaultPort |-> 443]]

\* the timeout used when the caller gives none
DefaultTimeout == 3000

DefaultHeaders ==
    Obj(("Accept" :> Str(<<"application/json">>))
        @@ ("Content-Type" :> Str(<<"application/json">>)))

\* options.headers
BuildHeaders(params) ==
    removeNilValue(Assign(Get(params, "headers"), DefaultHeaders))

\* options.port without the port of the URL
OptionsPortDefaultOnly(url, protocol) == Num(protocols[protocol[1]].defaultPort)

\* options.port
OptionsPort(url, protocol) ==
    IF canParseInt(Str(url.port))
    THEN ParseInt(Str(url.port))
    ELSE Num(protocols[protocol[1]].defaultPort)

\* options.path
OptionsPath(url) == Str(url.pathname \o url.search \o url.hash)

\* options.method without the upper-casing
OptionsMethodAsGiven(params) ==
    IF Truthy(Get(params, "method")) THEN Get(params, "method") ELSE Str(<<"GET">>)

\* options.method
OptionsMethod(params) ==
    IF Truthy(Get(params, "method"))
    THEN Str(ToUpperCase(Get(params, "method").v))
    ELSE Str(<<"GET">>)

\* the options object handed to lib.request
BuildOptions(params, url, protocol) ==
    LET tls(name) == IF protocol = <<"https">> THEN Get(params, name) ELSE Null IN
    removeNilValue(Obj(
        [hostname |-> Str(url.hostname),
         port |-> OptionsPort(url, protocol),
         path |-> OptionsPath(url),
         method |-> OptionsMethod(params),
         headers |-> BuildHeaders(params),
         agent |-> Get(params, "agent"),
         auth |-> Get(params, "auth"),
         createConnection |-> Get(params, "createConnection"),
         ca |-> tls("ca"),
         cert |-> tls("cert"),
         key |-> tls("key"),
         rejectUnauthorized |-> tls("rejectUnauthorized"),
         returnStream |-> IF Truthy(Get(params, "returnStream"))
                          THEN Get(params, "returnStream") ELSE Bool(FALSE)]))

\* const timeout
ResolveTimeout(params) ==
    IF canParseInt(Get(params, "timeout"))
    THEN Get(params, "timeout")
    ELSE Num(DefaultTimeout)

\* const requestBody
RequestBody(params) ==
    IF Truthy(Get(params, "data")) THEN AttemptStringify(Get(params, "data")) ELSE Null

Resolve(val) == [fn |-> "resolve", arg |-> val]
Reject(message) == [fn |-> "reject", arg |-> Err(message)]

\* no transport handle: lib.request was not called
NoRequest ==
    [created |-> FALSE, lib |-> "", options |-> Obj(<<>>), timeout |-> 0,
     written |-> <<>>, ended |-> FALSE, aborted |-> FALSE,
     timerFired |-> FALSE, closed |-> FALSE, silent |-> FALSE,
     connected |-> FALSE, upgraded |-> FALSE]

\* One token stands for the whole text of a well-formed PEM certificate, and
\* one for that of the private key that belongs to it; their content is not
\* modelled.  Every other text is no PEM of that kind.
PemCertificate == <<"<PEM certificate>">>
PemPrivateKey  == <<"<PEM private key>">>

\* typeof agent.addRequest === 'function'
AgentLike(agent) == Get(agent, "addRequest").k = "function"

\* The message of the error lib.request(options, cb) throws, <<>> when it
\* returns a handle.  http.request refuses an agent that is no Agent-like
\* object, and one made for another protocol; https.request with the default
\* agent builds the secure context at once and throws on a cert or a key
\* that is not well-formed (a ca that is not is passed over, and so is an
\* empty cert or key: the context tests if (cert), if (key)).
LibRequestThrows(protocol, options) ==
    LET agent == Get(options, "agent")
        cert == Get(options, "cert")
        key == Get(options, "key")
    IN
    IF ~isNil(agent) /\ agent # Bool(FALSE) /\ ~AgentLike(agent) THEN
        <<"The \"options.agent\" property must be one of Agent-like Object, ",
          "undefined, or false. Received an instance of Object">>
    ELSE IF ~isNil(agent) /\ AgentLike(agent) /\ Truthy(Get(agent, "protocol"))
            /\ Flat(ToText(Get(agent, "protocol"))) # Flat(protocol \o <<":">>) THEN
        <<"Protocol \"">> \o protocol \o <<":\" not supported. Expected \"">>
            \o ToText(Get(agent, "protocol")) \o <<"\"">>
    ELSE IF ~isNil(agent) THEN <<>>
    ELSE IF Truthy(cert) /\ cert.v # PemCertificate THEN
        <<"error:0480006C:PEM routines::no start line">>
    ELSE IF Truthy(key) /\ key.v # PemPrivateKey THEN
        <<"error:1E08010C:DECODER routines::unsupported">>
    ELSE <<>>

\* lib.request(options, cb).on('error', cb).setTimeout(timeout, cb): the
\* timer is armed and nothing has come from the transport yet
NewRequest(protocol, options, timeout) ==
    [NoRequest EXCEPT !.created = TRUE, !.lib = protocols[protocol[1]].lib,
                      !.options = options, !.timeout = timeout.n,
                      !.silent = TRUE]

\* the last statements of the executor: the body is serialized, written
\* for a method other than GET, and the request is ended
SendBody(params, req) ==
    LET requestBody == RequestBody(params) IN
    IF isError(requestBody) THEN
        [calls |-> <<Reject(<<"Could not set request body: ">> \o requestBody.message)>>,
         request |-> [req EXCEPT !.ended = TRUE], thrown |-> Undefined]
    ELSE IF Flat(Get(req.options, "method").v) # "GET" /\ Truthy(requestBody) THEN
        [calls |-> <<>>,
         request |-> [req EXCEPT !.written = Append(@, requestBody.v), !.ended = TRUE],
         thrown |-> Undefined]
    ELSE
        [calls |-> <<>>, request |-> [req EXCEPT !.ended = TRUE], thrown |-> Undefined]

\* the executor from the parsing of the URL on, for params that passed
\* validation; an error lib.request throws leaves the executor at once
AfterValidation(params) ==
    LET url == NewURL(Get(params, "url")) IN
    IF isError(url) THEN
        [calls |-> <<Reject(<<"Error while parsing the ", "url", ": ">> \o url.message)>>,
         request |-> NoRequest, thrown |-> Undefined]
    ELSE
    LET protocol == ReplaceFirst(url.protocol, ":") IN
    IF protocol \notin {<<"http">>, <<"https">>} THEN
        [calls |-> <<Reject(<<"Bad protocol used: ">> \o protocol)>>,
         request |-> NoRequest, thrown |-> Undefined]
    ELSE
    LET options == BuildOptions(params, url, protocol) IN
    IF LibRequestThrows(protocol, options) # <<>> THEN
        [calls |-> <<>>, request |-> NoRequest,
         thrown |-> Err(LibRequestThrows(protocol, options))]
    ELSE
        SendBody(params, NewRequest(protocol, options, ResolveTimeout(params)))

\* the executor without the return of its validation rejection: it goes on
\* with the rejected params, unless reading their url or method then throws
ExecutorNoReturn(params) ==
    LET httpRequestParamsError == attempt(validateHttpParams(params), Undefined)
        rejected == <<Reject(<<"Error on request params: ">>
                             \o httpRequestParamsError.message)>>
        goesOn == /\ isObject(params) /\ ~UrlInvalid(Get(params, "url"))
                  /\ (isNil(Get(params, "method")) \/ Get(params, "method").k = "string")
    IN
    IF ~isError(httpRequestParamsError) THEN AfterValidation(params)
    ELSE IF ~goesOn THEN [calls |-> rejected, request |-> NoRequest, thrown |-> Undefined]
    ELSE [calls |-> rejected \o AfterValidation(params).calls,
          request |-> AfterValidation(params).request,
          thrown |-> AfterValidation(params).thrown]

\* new Promise((resolve, reject) => { ... }): the invocations of resolve and
\* reject the executor makes, the transport handle it leaves behind, and the
\* error it throws (undefined when it returns)
Executor(params) ==
    LET httpRequestParamsError == attempt(validateHttpParams(params), Undefined) IN
    IF isError(httpRequestParamsError) THEN
        [calls |-> <<Reject(<<"Error on request params: ">>
                            \o httpRequestParamsError.message)>>,
         request |-> NoRequest, thrown |-> Undefined]
    ELSE AfterValidation(params)

\* the protocol of the call, as the callbacks close over it
Protocol(params) == ReplaceFirst(NewURL(Get(params, "url")).protocol, ":")

\* the callback of lib.request without the return of its status check
ResponseCallbackNoReturn(params, res) ==
    LET bad == res.statusCode < 200 \/ res.statusCode >= 300
        first == IF bad
                 THEN <<Reject(<<"Query returned status code of ">>
                               \o Digits(res.statusCode))>>
                 ELSE <<>>
    IN  IF Truthy(Get(params, "returnStream"))
        THEN [calls |-> first \o <<Resolve(res)>>, listeners |-> {}]
        ELSE [calls |-> first, listeners |-> {"data", "end", "error"}]

\* The callback given to lib.request: the invocations it makes and the
\* listeners it attaches to the response.
ResponseCallback(params, res) ==
    IF res.statusCode < 200 \/ res.statusCode >= 300 THEN
        [calls |-> <<Reject(<<"Query returned status code of ">>
                            \o Digits(res.statusCode))>>,
         listeners |-> {}]
    ELSE IF Truthy(Get(params, "returnStream")) THEN
        [calls |-> <<Resolve(res)>>, listeners |-> {}]
    ELSE
        [calls |-> <<>>, listeners |-> {"data", "end", "error"}]

\* response.on('data', chunk => chunks.push(`${chunk}`))
DataListener(cs, chunk) == Append(cs, ToText(chunk))

\* response.on('end', ...)
EndListener(cs) ==
    LET parsed == JSONParse(Join(cs)) IN
    IF parsed.k = "error"
    THEN <<Reject(<<"Error parsing chunks: ">> \o parsed.message)>>
    ELSE <<Resolve(parsed)>>

\* request.on('error', ...) and response.on('error', ...)
ErrorListener(params, e) ==
    <<Reject(ToText(capitalize(Protocol(params))) \o <<" error: ">> \o e.message)>>

\* the timeout callback that aborts and does not reject
TimeoutListenerAbortOnly(params, timeout) == <<>>

\* the callback given to request.setTimeout, after request.abort()
TimeoutListener(params, timeout) ==
    <<Reject(ToText(capitalize(Protocol(params)))
             \o <<" error: request timed out (timeout: ">>
             \o ToText(Num(timeout)) \o <<"ms)">>)>>

\* resolve(val) / reject(err) of a promise: only the first one settles it
Settle(p, call) ==
    IF p.state # "pending" THEN p
    ELSE [state |-> IF call.fn = "resolve" THEN "fulfilled" ELSE "rejected",
          value |-> call.arg]

RECURSIVE SettleAll(_, _)
SettleAll(p, cs) ==
    IF cs = <<>> THEN p ELSE SettleAll(Settle(p, Head(cs)), Tail(cs))

\* The Promise constructor when its executor has thrown: a promise still
\* pending is rejected with the error, without any invocation of reject.
SettleThrown(p, thrown) ==
    IF thrown.k = "undefined" \/ p.state # "pending" THEN p
    ELSE [state |-> "rejected", value |-> thrown]

----------------------------------------------------------------------------
(* The calls the model makes *)

\* the text of a URL on host "host"; an empty port, path, query or fragment
\* is left out
MkUrl(scheme, port, path, query, hash) ==
    <<scheme, "://", "host">>
    \o (IF port = <<>> THEN <<>> ELSE <<":">> \o port) \o path \o query \o hash

UrlSchemes == {"http", "https"}
UrlPorts   == {<<>>, <<"8", "0">>, <<"4", "4", "3">>, <<"8", "0", "8", "0">>,
               <<"0", "8", "1">>, <<"7", "0", "0", "0", "0">>}
UrlPaths   == {<<>>, <<"/path">>}
UrlQueries == {<<>>, <<"?">>, <<"?", "q=1">>}
UrlHashes  == {<<>>, <<"#">>, <<"#", "frag">>}

BaseUrl == Str(MkUrl("http", <<>>, <<"/path">>, <<>>, <<>>))

\* obj with property name set to val
With(obj, name, val) == Obj((name :> val) @@ obj.f)

\* obj with the property set unless val is undefined (the property is absent)
WithOpt(obj, name, val) == IF val.k = "undefined" THEN obj ELSE With(obj, name, val)

\* calls that differ in their URL
UrlCalls ==
    {Obj([url |-> Str(MkUrl(s, p, pa, q, h)), returnStream |-> Bool(TRUE)]) :
        s \in UrlSchemes, p \in UrlPorts, pa \in UrlPaths, q \in UrlQueries,
        h \in UrlHashes}
    \cup {Obj([url |-> Str(t)]) :
            t \in {<<"not a url">>, <<"host", "/path">>,
                   <<"ftp", "://", "host", "/path">>,
                   <<"HTTPS", "://", "host", "/path">>,
                   <<"https", "://", "host", ":", "/path">>}}

MethodValues == {Undefined, Str(<<"get">>), Str(<<"post">>), Str(<<"PUT">>), Str(<<"Delete">>)}
DataValues   == {Undefined, Obj([a |-> Num(1)]), Obj(<<>>), Obj([self |-> Cycle]),
                 Obj([a |-> Str(<<"x">>), b |-> Null])}
StreamValues == {Undefined, Bool(TRUE), Bool(FALSE)}
TimeoutValues == {Undefined, Num(0), Num(UserTimeout), NaN}

\* calls that differ in method, data, returnStream and timeout
BodyCalls ==
    {WithOpt(WithOpt(WithOpt(WithOpt(Obj([url |-> BaseUrl]),
        "method", m), "data", d), "returnStream", r), "timeout", t) :
        m \in MethodValues, d \in DataValues, r \in StreamValues, t \in TimeoutValues}

HeaderValues ==
    {Obj(<<>>), Null,
     Obj([Accept |-> Null]),
     Obj([Accept |-> Str(<<"text/html">>)]),
     Obj(("Content-Type" :> Null) @@ ("X-Req" :> Str(<<"1">>))),
     Obj(("Accept" :> Null) @@ ("Content-Type" :> Null)),
     Obj(("X-Req" :> Null))}

\* calls that differ in their headers
HeaderCalls ==
    {Obj([url |-> Str(MkUrl(s, <<>>, <<"/path">>, <<>>, <<>>)), headers |-> h,
          returnStream |-> Bool(TRUE)]) :
        s \in UrlSchemes, h \in HeaderValues}

\* values of the wrong type
WrongValues == {Null, Num(5), Bool(TRUE), Str(<<>>), Str(<<"x">>), Arr(<<>>), Obj(<<>>)}

ParamNames ==
    {"url", "headers", "method", "data", "auth", "agent", "createConnection",
     "timeout", "ca", "cert", "key", "rejectUnauthorized", "returnStream"}

\* calls with one parameter replaced, calls without a url, and calls whose
\* argument is no object
OddCalls ==
    {With(Obj([url |-> BaseUrl]), name, val) : name \in ParamNames, val \in WrongValues}
    \cup {With(Obj([url |-> Str(MkUrl(s, <<>>, <<"/path">>, <<>>, <<>>))]), "agent", a) :
            s \in UrlSchemes,
            a \in {Bool(FALSE), Obj([addRequest |-> Fn]),
                   Obj([addRequest |-> Fn, protocol |-> Str(<<"https", ":">>)])}}
    \cup {Obj(<<>>), Obj([method |-> Str(<<"post">>)]), Undefined, Null,
          Str(<<"http", "://", "host">>), Arr(<<>>), Num(5)}

TlsNames == {"ca", "cert", "key", "rejectUnauthorized"}

\* calls that differ in their TLS parameters and in auth
TlsCalls ==
    {WithOpt(WithOpt(WithOpt(WithOpt(WithOpt(
        Obj([url |-> Str(MkUrl(s, <<>>, <<"/path">>, <<>>, <<>>)),
             returnStream |-> Bool(TRUE)]),
        "ca", ca), "cert", cert), "key", key), "rejectUnauthorized", ru), "auth", au) :
        s \in UrlSchemes,
        ca \in {Undefined, Null, Str(<<"CA">>)},
        cert \in {Undefined, Str(PemCertificate), Str(<<"CERT">>)},
        key \in {Undefined, Str(PemPrivateKey), Str(<<"KEY">>)},
        ru \in {Undefined, Bool(FALSE), Bool(TRUE)},
        au \in {Undefined, Null, Str(<<"user:pass">>)}}
    \cup {WithOpt(WithOpt(
              Obj([url |-> Str(MkUrl(s, <<>>, <<"/path">>, <<>>, <<>>))]),
              "cert", cert), "key", key) :
            s \in UrlSchemes,
            cert \in {Undefined, Str(<<>>), Str(<<"CERT">>)},
            key \in {Undefined, Str(<<>>), Str(PemPrivateKey)}}

ParamsSet == UrlCalls \cup BodyCalls \cup HeaderCalls \cup OddCalls \cup TlsCalls

\* the chunks the transport may emit
ChunkSet == {Buf(<<"[">>), Buf(<<" ", "1">>), Buf(<<"]">>)}

\* The status codes a response may carry when it is handed to the callback.
\* Of the statuses below 200, node reports 100, 102 to 199 as 'information'
\* and not as a response; 101 without an upgrade and the statuses below 100
\* are handed to the callback as any other.
Statuses == {99, 101, 200, 299, 300, 404, 500}

\* the errors the transport may emit on the request
TransportErrors == {Err(<<"socket hang up">>), Err(<<"read ECONNRESET">>)}

\* the errors the transport may emit on the response
ResponseErrors == {Err(<<"aborted">>)}

----------------------------------------------------------------------------
(* The state machine                                                       *)
(*                                                                         *)
(* The transport (node's http / https) is the environment.  It reports a   *)
(* response at most once and only for a request that was ended and not     *)
(* aborted; 'data' only to an attached listener, before 'end' and before   *)
(* an abort; 'end' at most once and never after an abort (the body cut     *)
(* short is reported as an 'error' of the response).  All of this needs    *)
(* the socket to be connected.  Before the response the transport may send *)
(* interim (1xx) responses, which the code does not listen to, or answer   *)
(* with an upgrade, which the code does not listen to either: node then    *)
(* destroys the connection and no handler ever runs.                       *)
(* An 'error' of the request closes the handle: the timer cannot           *)
(* fire any more and nothing is reported, except that a response whose     *)
(* body was cut short by it reports an 'error' of its own ("aborted").  An *)
(* 'error' of the response is its last event and closes the handle too.    *)
(* A response the code attached no listener to (a status rejection, a      *)
(* delivered stream) ends out of its sight: the handle closes when the     *)
(* connection does, without any event the code handles.  The timer is      *)
(* never disarmed by the code; it cannot fire on a closed handle.  It is   *)
(* the idle timer of the socket: whatever arrives (an interim response,    *)
(* the response, a chunk, heard by the code or not) arms it anew, and it   *)
(* fires only when the transport has then stayed silent for the timeout.   *)
(* The socket takes the timeout of the call when it connects (0 arms no    *)
(* timer); until then it carries the timeout of node's global agent, and   *)
(* when that one fires the callback given to request.setTimeout runs.      *)

NoResponse ==
    [received |-> FALSE, statusCode |-> 0, listeners |-> {}, ended |-> FALSE,
     failed |-> FALSE]

Init ==
    /\ requestParams \in ParamsSet
    /\ called = FALSE
    /\ calls = <<>>
    /\ promise = [state |-> "pending", value |-> Undefined]
    /\ request = NoRequest
    /\ response = NoResponse
    /\ chunks = <<>>
    /\ arrived = <<>>

\* the invocations a handler makes reach the promise in order
Invoke(cs) ==
    /\ calls' = calls \o cs
    /\ promise' = SettleAll(promise, cs)

\* riquest(requestParams): the executor runs to its end
Call ==
    /\ ~called
    /\ called' = TRUE
    /\ calls' = calls \o Executor(requestParams).calls
    /\ promise' = SettleThrown(SettleAll(promise, Executor(requestParams).calls),
                               Executor(requestParams).thrown)
    /\ request' = Executor(requestParams).request
    /\ UNCHANGED <<requestParams, response, chunks, arrived>>

\* the transport has a request it can still report events for
Live == called /\ request.created /\ request.ended /\ ~request.closed

\* the socket connects
OnConnect ==
    /\ Live /\ ~request.aborted /\ ~request.connected
    /\ request' = [request EXCEPT !.connected = TRUE]
    /\ UNCHANGED <<requestParams, called, calls, promise, response, chunks, arrived>>

\* the response headers arrive: the callback of lib.request runs
OnResponse(status) ==
    /\ Live /\ request.connected /\ ~request.aborted /\ ~response.received
    /\ LET res == [k |-> "response", statusCode |-> status]
           out == ResponseCallback(requestParams, res)
       IN  /\ Invoke(out.calls)
           /\ response' = [received |-> TRUE, statusCode |-> status,
                           listeners |-> out.listeners, ended |-> FALSE,
                           failed |-> FALSE]
    /\ request' = [request EXCEPT !.silent = FALSE]
    /\ UNCHANGED <<requestParams, called, chunks, arrived>>

\* an interim (1xx) response arrives: node emits 'information', to which the
\* code has no listener; the idle timer starts anew
OnInformation ==
    /\ Live /\ request.connected /\ ~request.aborted /\ ~response.received
    /\ request.silent
    /\ request' = [request EXCEPT !.silent = FALSE]
    /\ UNCHANGED <<requestParams, called, calls, promise, response, chunks, arrived>>

\* the server answers with an upgrade (101 and Connection: Upgrade): the
\* code has no 'upgrade' listener, node destroys the connection, the request
\* emits 'close' and no handler runs
OnUpgrade ==
    /\ Live /\ request.connected /\ ~request.aborted /\ ~response.received
    /\ request' = [request EXCEPT !.closed = TRUE, !.upgraded = TRUE]
    /\ UNCHANGED <<requestParams, called, calls, promise, response, chunks, arrived>>

\* bytes of the body arrive on a response the code attached no 'data'
\* listener to (a delivered stream the caller reads): the idle timer starts
\* anew
OnUnheardData ==
    /\ Live /\ ~request.aborted
    /\ response.received /\ "data" \notin response.listeners
    /\ request.silent
    /\ request' = [request EXCEPT !.silent = FALSE]
    /\ UNCHANGED <<requestParams, called, calls, promise, response, chunks, arrived>>

\* nothing comes from the transport for a while: the idle timer runs on
OnSilence ==
    /\ Live /\ ~request.silent
    /\ request' = [request EXCEPT !.silent = TRUE]
    /\ UNCHANGED <<requestParams, called, calls, promise, response, chunks, arrived>>

\* a chunk of the body arrives at the 'data' listener
OnData(chunk) ==
    /\ Live /\ ~request.aborted /\ ~response.ended /\ ~response.failed
    /\ "data" \in response.listeners
    /\ Len(arrived) < MaxChunks
    /\ chunks' = DataListener(chunks, chunk)
    /\ arrived' = Append(arrived, chunk)
    /\ request' = [request EXCEPT !.silent = FALSE]
    /\ UNCHANGED <<requestParams, called, calls, promise, response>>

\* the body ends
OnEnd ==
    /\ Live /\ ~request.aborted /\ ~response.ended /\ ~response.failed
    /\ "end" \in response.listeners
    /\ Invoke(EndListener(chunks))
    /\ response' = [response EXCEPT !.ended = TRUE]
    /\ request' = [request EXCEPT !.closed = TRUE]
    /\ UNCHANGED <<requestParams, called, chunks, arrived>>

\* the response stream reports an error: its body was cut short, by the
\* peer, by the abort, or by the error the request has just reported
OnResponseError(e) ==
    /\ called /\ request.created /\ request.ended
    /\ response.received /\ ~response.ended /\ ~response.failed
    /\ "error" \in response.listeners
    /\ Invoke(ErrorListener(requestParams, e))
    /\ response' = [response EXCEPT !.failed = TRUE]
    /\ request' = [request EXCEPT !.closed = TRUE]
    /\ UNCHANGED <<requestParams, called, chunks, arrived>>

\* the request reports an error; after an abort it does so only when no
\* response had been received
OnRequestError(e) ==
    /\ Live
    /\ request.aborted => ~response.received
    /\ Invoke(ErrorListener(requestParams, e))
    /\ request' = [request EXCEPT !.closed = TRUE]
    /\ UNCHANGED <<requestParams, called, response, chunks, arrived>>

\* the connection of a response without listeners closes: the request emits
\* 'close', which the code does not listen to
OnClose ==
    /\ Live /\ response.received /\ response.listeners = {}
    /\ request' = [request EXCEPT !.closed = TRUE]
    /\ UNCHANGED <<requestParams, called, calls, promise, response, chunks, arrived>>

\* the callback given to request.setTimeout runs: the transport has stayed
\* silent for the timeout of the socket (the one of the call once connected,
\* where 0 arms none; the one of the global agent before)
OnTimeout ==
    /\ Live /\ ~request.timerFired
    /\ request.timeout > 0 \/ ~request.connected
    /\ request.silent
    /\ Invoke(TimeoutListener(requestParams, request.timeout))
    /\ request' = [request EXCEPT !.aborted = TRUE, !.timerFired = TRUE]
    /\ UNCHANGED <<requestParams, called, response, chunks, arrived>>

Next ==
    \/ Call
    \/ OnConnect
    \/ OnInformation
    \/ OnUpgrade
    \/ OnUnheardData
    \/ OnSilence
    \/ \E status \in Statuses : OnResponse(status)
    \/ \E chunk \in ChunkSet : OnData(chunk)
    \/ OnEnd
    \/ \E e \in ResponseErrors : OnResponseError(e)
    \/ \E e \in TransportErrors : OnRequestError(e)
    \/ OnClose
    \/ OnTimeout

Spec == Init /\ [][Next]_vars

\* the calls whose lifecycle the timer decides: a body that serializes, one
\* that does not and none; a stream or a parsed body; the default timeout,
\* the caller's and none
LiveCalls ==
    {WithOpt(WithOpt(With(With(Obj([url |-> BaseUrl]),
        "method", Str(<<"post">>)), "returnStream", r), "data", d), "timeout", t) :
        d \in {Undefined, Obj([a |-> Num(1)]), Obj([self |-> Cycle])},
        r \in {Bool(TRUE), Bool(FALSE)},
        t \in {Undefined, Num(0), Num(UserTimeout)}}

InitLive ==
    /\ requestParams \in LiveCalls
    /\ called = FALSE
    /\ calls = <<>>
    /\ promise = [state |-> "pending", value |-> Undefined]
    /\ request = NoRequest
    /\ response = NoResponse
    /\ chunks = <<>>
    /\ arrived = <<>>

\* Time passes, so a transport that sends nothing more is silent, and the
\* timer fires when the transport stays silent on an open handle: node's
\* timers are reliable.  Nothing is assumed of the transport's own events (it
\* may go on sending for ever, and a handle may close before its timer
\* fires), nor of when the call is made.
LiveSpec == InitLive /\ [][Next]_vars /\ WF_vars(OnSilence) /\ WF_vars(OnTimeout)

----------------------------------------------------------------------------
(* What the claims read from a state *)

\* the call reached lib.request
Sent == called /\ request.created

Param(name) == Get(requestParams, name)

\* params.data is present and JSON.stringify throws on it
SerializationFails ==
    Sent /\ ~isNil(Param("data")) /\ Stringify(Param("data")) = <<"#throw">>

\* the message of the error the promise was rejected with, <<>> otherwise
RejectionMessage ==
    IF promise.state = "rejected" /\ promise.value.k = "error"
    THEN promise.value.message ELSE <<>>

\* the text the transport emitted, chunk after chunk
ArrivedText == Join([i \in 1..Len(arrived) |-> arrived[i].bytes])

----------------------------------------------------------------------------
(* C1 *)

\* C1, as stated: per call exactly one of resolve and reject is invoked, never
\* a second invocation after the first, and one invocation once the call has
\* failed early or the transport has closed.
C1_ExactlyOneInvocation ==
    /\ Len(calls) <= 1
    /\ (called /\ (~request.created \/ request.closed)) => Len(calls) = 1

\* C1, amended: every step (the executor, each handled transport event)
\* invokes at most one of resolve and reject, earlier invocations stay as they
\* were, and the promise is settled by the first invocation alone: later
\* invocations leave the outcome unchanged.  With no invocation the promise
\* is pending, unless the executor has thrown (the transport refused the
\* options): then it is rejected with the error thrown.
C1_FirstInvocationDecides ==
    [][/\ Len(calls') <= Len(calls) + 1
       /\ SubSeq(calls', 1, Len(calls)) = calls
       /\ (calls' = <<>> =>
              promise' = (IF called' /\ Executor(requestParams').thrown.k = "error"
                          THEN [state |-> "rejected",
                                value |-> Executor(requestParams').thrown]
                          ELSE [state |-> "pending", value |-> Undefined]))
       /\ (calls' # <<>> =>
              /\ promise'.state = (IF calls'[1].fn = "resolve"
                                   THEN "fulfilled" ELSE "rejected")
              /\ promise'.value = calls'[1].arg)]_vars

\* a stream was delivered, the timer fired afterwards and reject was invoked:
\* the promise stays fulfilled
C1_SecondInvocationIgnored ==
    /\ Len(calls) = 2
    /\ calls[1].fn = "resolve" /\ calls[2].fn = "reject"
    /\ request.timerFired
    /\ promise.state = "fulfilled"

----------------------------------------------------------------------------
(* C2 *)

\* C2: a default header key the caller sets to null is absent from the
\* headers handed to the transport, and a default key the caller does not
\* mention keeps the value application/json.
C2_NullRemovesDefault ==
    Sent /\ isObject(Param("headers")) =>
        \A key \in {"Accept", "Content-Type"} :
            LET given == Param("headers").f
                out == Get(request.options, "headers").f
            IN  /\ (key \in DOMAIN given /\ given[key].k = "null") => key \notin DOMAIN out
                /\ key \notin DOMAIN given =>
                      key \in DOMAIN out /\ out[key] = Str(<<"application/json">>)

----------------------------------------------------------------------------
(* C3 *)

\* C3: once a response with a status code outside [200, 300) has been
\* received, the promise is rejected with an error carrying that code,
\* whatever returnStream is, and no listener is attached to the response: no
\* chunk is read or buffered.
C3_StatusRejects ==
    (response.received /\ (response.statusCode < 200 \/ response.statusCode >= 300)) =>
        /\ promise.state = "rejected"
        /\ Contains(RejectionMessage, Digits(response.statusCode))
        /\ response.listeners = {}
        /\ chunks = <<>> /\ arrived = <<>>

----------------------------------------------------------------------------
(* C4 *)

\* C4: when the timer fires and no response has been delivered, the timer was
\* armed with params.timeout (3000 when there is none), the request is aborted
\* and the promise is rejected with a timeout error whose message holds that
\* number of milliseconds.
C4_TimeoutRejects ==
    (Sent /\ request.timerFired /\ ~response.received) =>
        /\ request.timeout = (IF Param("timeout").k = "number"
                              THEN Param("timeout").n ELSE 3000)
        /\ request.aborted
        /\ promise.state = "rejected"
        /\ Contains(RejectionMessage,
                    <<" error: request timed out (timeout: ">>
                    \o Digits(request.timeout) \o <<"ms)">>)

----------------------------------------------------------------------------
(* C5 *)

\* C5: when params.data is present and cannot be serialized, the promise is
\* rejected with a serialization error and the request is neither written to
\* nor ended.
C5_NoRequestSent ==
    SerializationFails =>
        /\ promise.state = "rejected"
        /\ Contains(RejectionMessage, <<"Could not set request body: ">>)
        /\ request.written = <<>>
        /\ ~request.ended

----------------------------------------------------------------------------
(* C6 *)

\* C6: a call whose argument is an object with url missing, not a string or
\* the empty string is rejected by the executor with a validation error whose
\* message mentions url; no request is made.
C6_UrlValidation ==
    (called /\ isObject(requestParams)
        /\ (Param("url").k # "string" \/ Param("url") = Str(<<>>))) =>
        /\ Len(calls) = 1 /\ calls[1].fn = "reject"
        /\ promise.state = "rejected"
        /\ SubSeq(RejectionMessage, 1, 1) = <<"Error on request params: ">>
        /\ Contains(RejectionMessage, <<"url">>)
        /\ ~request.created

\* a call with the empty string as url has been rejected
C6_EmptyUrlRejected ==
    /\ called /\ isObject(requestParams) /\ Param("url") = Str(<<>>)
    /\ promise.state = "rejected"
    /\ Contains(RejectionMessage, <<"url">>)

----------------------------------------------------------------------------
(* C7 *)

\* C7: once a response with a status code in [200, 300) has been received by
\* a call with returnStream true, the promise is fulfilled with the response
\* itself and no listener is attached to it: no chunk is consumed or buffered.
C7_StreamResolves ==
    (response.received /\ response.statusCode >= 200 /\ response.statusCode < 300
        /\ Param("returnStream") = Bool(TRUE)) =>
        /\ promise.state = "fulfilled"
        /\ promise.value = [k |-> "response", statusCode |-> response.statusCode]
        /\ response.listeners = {}
        /\ chunks = <<>> /\ arrived = <<>>

----------------------------------------------------------------------------
(* C8 *)

\* the invocation the end of a body with this text calls for
EndCall(text) ==
    IF JSONParse(text).k = "error"
    THEN Reject(<<"Error parsing chunks: ">> \o JSONParse(text).message)
    ELSE Resolve(JSONParse(text))

\* C8: at the end of the body of a buffering call the promise is fulfilled
\* with the JSON parse of the chunks in their order of arrival, or rejected
\* with a body-parse error when that text is no JSON.
C8_EndSettlesPromise ==
    response.ended =>
        /\ chunks = [i \in 1..Len(arrived) |-> arrived[i].bytes]
        /\ promise.state = (IF EndCall(ArrivedText).fn = "resolve"
                            THEN "fulfilled" ELSE "rejected")
        /\ promise.value = EndCall(ArrivedText).arg

----------------------------------------------------------------------------
(* C9 *)

\* C9: for a call that reaches the transport, nothing is written when data is
\* absent or the method (upper-cased, GET when absent) is GET; otherwise the
\* one thing written is the JSON serialization of data, when it has one.
C9_BodyWritten ==
    Sent =>
        LET method == IF isNil(Param("method")) THEN <<"GET">> ELSE Param("method").v
            isGet == method \in {<<"GET">>, <<"get">>, <<"Get">>}
            data == Param("data")
        IN  /\ (isNil(data) \/ isGet) => request.written = <<>>
            /\ (~isNil(data) /\ ~isGet /\ ~SerializationFails) =>
                  /\ Len(request.written) = 1
                  /\ request.written[1] = Stringify(data)
            /\ (data = Obj([a |-> Num(1)]) /\ ~isGet) =>
                  request.written = << <<"{", "\"", "a", "\"", ":", "1", "}">> >>

\* a lower-case get with data was sent with nothing written
C9_GetWithDataSent ==
    /\ Sent /\ request.ended
    /\ Param("method") = Str(<<"get">>)
    /\ Param("data") = Obj([a |-> Num(1)])
    /\ request.written = <<>>

----------------------------------------------------------------------------
(* C10 *)

\* C10: for a URL written scheme://host[:port][path][query][fragment], the
\* port handed to the transport is the number the port digits denote, and
\* the default of the scheme (80 for http, 443 for https) when there are
\* none; the path handed over is pathname, query and fragment one after the
\* other ("/" for no path, nothing for a bare "?" or "#").
C10_PortAndPath ==
    Sent =>
        \A s \in UrlSchemes, p \in UrlPorts, pa \in UrlPaths, q \in UrlQueries,
           h \in UrlHashes :
            Param("url") = Str(MkUrl(s, p, pa, q, h)) =>
                /\ Get(request.options, "port") =
                      Num(IF p # <<>> THEN LeadingInt(p, 1, 0)
                          ELSE IF s = "https" THEN 443 ELSE 80)
                /\ Get(request.options, "path") =
                      Str((IF pa = <<>> THEN <<"/">> ELSE pa)
                          \o (IF q = <<"?">> THEN <<>> ELSE q)
                          \o (IF h = <<"#">> THEN <<>> ELSE h))

\* https://host/path?q=1#frag was sent to port 443 with path /path?q=1#frag
C10_HttpsDefaultPort ==
    /\ Sent
    /\ Param("url") = Str(<<"https", "://", "host", "/path", "?", "q=1", "#", "frag">>)
    /\ Get(request.options, "port") = Num(443)
    /\ Get(request.options, "path") = Str(<<"/path", "?", "q=1", "#", "frag">>)

----------------------------------------------------------------------------
(* C11 *)

\* the scheme name of the call with its first letter in upper case
CapitalizedScheme ==
    IF Protocol(requestParams) = <<"https">> THEN "Https" ELSE "Http"

\* C11: every rejection made for a transport error or for the timeout
\* carries a message that begins with the capitalized scheme name of the URL,
\* followed by " error: ".
C11_ErrorPrefix ==
    \A i \in 1..Len(calls) :
        (calls[i].fn = "reject"
            /\ \E j \in 1..Len(calls[i].arg.message) :
                  calls[i].arg.message[j] \in {" error: ", " error: request timed out (timeout: "}) =>
            /\ calls[i].arg.message[1] = CapitalizedScheme
            /\ calls[i].arg.message[2]
                  \in {" error: ", " error: request timed out (timeout: "}

----------------------------------------------------------------------------
(* C13 *)

\* C13: the message of every validation rejection of an object argument
\* names a parameter the validator rejects and reports the typeof of the
\* value received for it.
C13_ValidationNamesFieldAndType ==
    (called /\ isObject(requestParams) /\ validateHttpParams(requestParams) # <<>>) =>
        /\ promise.state = "rejected"
        /\ Len(RejectionMessage) = 5
        /\ RejectionMessage[1] = "Error on request params: "
        /\ \E name \in ParamNames :
              /\ RejectionMessage[2] = name
              /\ RejectionMessage[4] = TypeOf(Param(name))
              /\ RejectionMessage[5] = " given"

----------------------------------------------------------------------------
(* C12 *)

\* C12: for an http URL the options handed to the transport hold none of
\* ca, cert, key and rejectUnauthorized, whatever the caller gave; for an
\* https URL they hold exactly those the caller gave a value other than null,
\* with that value; and no key of the options has a null or undefined value.
C12_TlsOptions ==
    Sent =>
        LET options == request.options.f IN
        /\ \A key \in DOMAIN options : ~isNil(options[key])
        /\ \A name \in TlsNames :
              /\ name \in DOMAIN options =>
                    /\ request.lib = "https"
                    /\ options[name] = Param(name)
              /\ (request.lib = "https" /\ Param(name).k \notin {"undefined", "null"}) =>
                    name \in DOMAIN options

\* an http call given ca, cert, key and rejectUnauthorized was sent without
\* any of them
C12_HttpDropsTls ==
    /\ Sent /\ request.lib = "http"
    /\ Param("ca") = Str(<<"CA">>) /\ Param("cert") = Str(<<"CERT">>)
    /\ Param("key") = Str(<<"KEY">>) /\ Param("rejectUnauthorized") = Bool(FALSE)
    /\ TlsNames \cap DOMAIN request.options.f = {}

----------------------------------------------------------------------------
(* C14 *)

\* the first tokens of the messages of the executor's early rejections
EarlyPrefixes ==
    {"Error on request params: ", "Error while parsing the ", "Bad protocol used: "}

\* C14: once a call is rejected for its parameters, for its URL or for its
\* scheme, there is no transport handle: no timer is armed, nothing is
\* written, the request is not ended, that rejection is the only invocation,
\* and no step (response, data, end, error, timeout) can follow.
C14_EarlyRejectMakesNoRequest ==
    (called /\ calls # <<>> /\ calls[1].arg.k = "error"
        /\ calls[1].arg.message[1] \in EarlyPrefixes) =>
        /\ request = NoRequest
        /\ ~request.created /\ request.timeout = 0 /\ request.written = <<>>
        /\ ~request.ended
        /\ response = NoResponse
        /\ chunks = <<>> /\ arrived = <<>>
        /\ Len(calls) = 1
        /\ ~ENABLED Next

\* a call to an ftp URL has been rejected and no request exists
C14_FtpRejected ==
    /\ called
    /\ Param("url") = Str(<<"ftp", "://", "host", "/path">>)
    /\ RejectionMessage = <<"Bad protocol used: ", "ftp">>
    /\ ~request.created

----------------------------------------------------------------------------
(* C15 *)

\* C15, as stated: a call that reached the transport with a positive
\* timeout armed eventually has its promise settled.
C15_AlwaysSettles ==
    [](Sent /\ request.timeout > 0 => <>(promise.state # "pending"))

\* the transport has just sent something: the idle timer was armed anew
Active == Sent /\ ~request.silent

\* C15, amended: a call that reached the transport with a positive timeout
\* armed eventually has its promise settled, unless the transport goes on
\* sending for ever, each arrival arming the idle timer anew, or answers
\* with an upgrade, after which no handler runs; the timeout of
\* the handle never changes after the request is made; and when the timer
\* fires with the promise settled already, the request is aborted, reject is
\* invoked once more and the outcome stays as it was.
C15_SettlesUnlessEverActive ==
    /\ \/ []<>Active
       \/ [](Sent /\ request.timeout > 0 =>
                <>(promise.state # "pending" \/ request.upgraded))
    /\ [][request.created => request'.timeout = request.timeout]_vars
    /\ [][(promise.state # "pending" /\ ~request.timerFired /\ request'.timerFired) =>
            /\ request'.aborted
            /\ promise' = promise
            /\ Len(calls') = Len(calls) + 1]_vars

\* a status rejection was followed by the timeout: the request is aborted
\* and the promise keeps the status error
C15_TimeoutAfterStatusRejection ==
    /\ Len(calls) = 2
    /\ response.received /\ response.statusCode = 404
    /\ request.timerFired /\ request.aborted
    /\ promise.state = "rejected"
    /\ promise.value = calls[1].arg
    /\ RejectionMessage = <<"Query returned status code of ", "4", "0", "4">>

====
